---- MODULE Spec2Model ----
(***************************************************************************)
(* Shape document (packages/ui/src/shapes_doc.rs), shape values            *)
(* (shapes.rs), the pointer-gesture controller (shapes_ui.rs) and the      *)
(* application state (application_state.rs, document.rs) of pcl-demo.      *)
(*                                                                         *)
(* The specifications share the variables:                                 *)
(*   SpecDoc   the Document API called directly, in any order, with any    *)
(*             ids and shapes, on an empty, a demo or a pairs document;    *)
(*   Spec      the running canvas: DOC = new_demo(), and the four event    *)
(*             handlers of shapes_ui.rs driven by pointer events;          *)
(*   SpecLive  Spec with the pointer-up handler weakly fair;               *)
(*   SpecColor the color cycler called directly;                           *)
(*   SpecPairs one constructor of Document called with any arguments;      *)
(*   SpecApp   the methods of ApplicationState called in any order over    *)
(*             a file system whose calls can fail.                         *)
(*                                                                         *)
(* f64 coordinates are modelled by integers.  usize is modelled at a       *)
(* reduced width (UsizeBits); `+ 1` on a usize either wraps (release       *)
(* profile) or panics (overflow checks on), and both outcomes are kept.    *)
(***************************************************************************)
EXTENDS Integers, Sequences, FiniteSets, TLC

VARIABLES
    DOC,             \* static DOC: GlobalSignal<Document>
    APP_STATE,       \* static APP_STATE: GlobalSignal<AppState>
    CANVAS_TRACKER,  \* static CANVAS_TRACKER: GlobalSignal<Option<Rc<dyn Tracker>>>
    rendered,        \* values captured by the closures of the last render
    panicked,        \* TRUE once an arithmetic overflow check has panicked
    used,            \* history: ids passed to upsert or returned by generate
    last,            \* history: the last call or event and what it was given
    calls,           \* history: number of Document API calls made (SpecDoc)
    gestures,        \* history: number of pointer-downs handled (Spec)
    application_state, \* main.rs: use_signal(|| ApplicationState::new())
    files            \* the file system: the content at each path

vars == <<DOC, APP_STATE, CANVAS_TRACKER, rendered, panicked, used, last,
          calls, gestures,
          application_state, files>>

(***************************************************************************)
(* Bounds of the model.                                                    *)
(***************************************************************************)
UsizeBits == 4      \* modelled width of usize
MaxOps == 4         \* SpecDoc makes at most this many API calls
MaxGestures == 2    \* Spec handles at most this many pointer-downs
MaxColorCalls == 18 \* SpecColor makes at most this many cycler calls
MaxPairs == 4       \* SpecPairs passes lists of at most this length

(***************************************************************************)
(* shapes.rs                                                               *)
(***************************************************************************)
Color == {"Red", "Orange", "Yellow", "Green", "Blue", "Indigo", "Violet",
          "White", "Black"}

\* mutant: the cycle follows the order of the enum declaration, in which
\* White comes before Black
advance_in_enum_order(color) ==
    CASE color = "Red"    -> "Orange"
      [] color = "Orange" -> "Yellow"
      [] color = "Yellow" -> "Green"
      [] color = "Green"  -> "Blue"
      [] color = "Blue"   -> "Indigo"
      [] color = "Indigo" -> "Violet"
      [] color = "Violet" -> "White"
      [] color = "White"  -> "Black"
      [] color = "Black"  -> "Red"

\* mutant: Violet goes back to Red, so that Black and White are never next
advance_violet_to_red(color) ==
    CASE color = "Red"    -> "Orange"
      [] color = "Orange" -> "Yellow"
      [] color = "Yellow" -> "Green"
      [] color = "Green"  -> "Blue"
      [] color = "Blue"   -> "Indigo"
      [] color = "Indigo" -> "Violet"
      [] color = "Violet" -> "Red"
      [] color = "Black"  -> "White"
      [] color = "White"  -> "Red"

advance(color) ==
    CASE color = "Red"    -> "Orange"
      [] color = "Orange" -> "Yellow"
      [] color = "Yellow" -> "Green"
      [] color = "Green"  -> "Blue"
      [] color = "Blue"   -> "Indigo"
      [] color = "Indigo" -> "Violet"
      [] color = "Violet" -> "Black"
      [] color = "Black"  -> "White"
      [] color = "White"  -> "Red"

Style(fill) == [fill |-> fill]

Shape(geometry, style) == [geometry |-> geometry, style |-> style]

XYPoint(x, y) == [x |-> x, y |-> y]

add(p, other) == XYPoint(p.x + other.x, p.y + other.y)

subtract(p, other) == XYPoint(p.x - other.x, p.y - other.y)

rectangle(left, top, width, height) ==
    [kind |-> "Rectangle", top_left |-> XYPoint(left, top),
     size |-> XYPoint(width, height)]

circle(cx, cy, radius) ==
    [kind |-> "Circle", center |-> XYPoint(cx, cy), radius |-> radius]

\* mutant: the offset is added to the size and the radius too
offset_by_resizes(geometry, offset) ==
    IF geometry.kind = "Rectangle"
    THEN [kind |-> "Rectangle", top_left |-> add(geometry.top_left, offset),
          size |-> add(geometry.size, offset)]
    ELSE [kind |-> "Circle", center |-> add(geometry.center, offset),
          radius |-> geometry.radius + offset.x]

offset_by(geometry, offset) ==
    IF geometry.kind = "Rectangle"
    THEN [kind |-> "Rectangle", top_left |-> add(geometry.top_left, offset),
          size |-> geometry.size]
    ELSE [kind |-> "Circle", center |-> add(geometry.center, offset),
          radius |-> geometry.radius]

(***************************************************************************)
(* usize arithmetic: ShapeId = usize.                                      *)
(***************************************************************************)
UsizeMax == 2^UsizeBits - 1

\* a + 1 on usize: the exact sum when it fits; otherwise the wrapped sum
\* (overflow checks off) or a panic (overflow checks on).
usize_add_one(a) ==
    IF a + 1 <= UsizeMax
    THEN {[panic |-> FALSE, value |-> a + 1]}
    ELSE {[panic |-> FALSE, value |-> (a + 1) % (2^UsizeBits)],
          [panic |-> TRUE, value |-> a]}

(***************************************************************************)
(* shapes_doc.rs: Document                                                 *)
(***************************************************************************)
EmptyMap == [k \in {} |-> k]

contains(seq, x) == \E i \in 1..Len(seq) : seq[i] = x

\* Iterator::position, 1-based; 0 stands for None
position(seq, x) ==
    IF contains(seq, x)
    THEN CHOOSE i \in 1..Len(seq) :
             seq[i] = x /\ \A j \in 1..(i - 1) : seq[j] # x
    ELSE 0

\* Vec::remove(idx), 1-based
remove(seq, idx) == SubSeq(seq, 1, idx - 1) \o SubSeq(seq, idx + 1, Len(seq))

\* mutant: HashMap::entry(k).or_insert(v): an existing value is kept
insert_keeps_existing(map, k, v) ==
    [x \in (DOMAIN map) \cup {k} |->
        IF x \in DOMAIN map THEN map[x] ELSE v]

\* HashMap::insert
insert(map, k, v) ==
    [x \in (DOMAIN map) \cup {k} |-> IF x = k THEN v ELSE map[x]]

\* HashMap::remove
map_remove(map, k) == [x \in (DOMAIN map) \ {k} |-> map[x]]

\* mutant: the first id to generate is 0
new_empty_from_zero ==
    [shapes |-> [k \in {} |-> k], sequence |-> <<>>, next_shape_id |-> 0]

new_empty == [shapes |-> EmptyMap, sequence |-> <<>>, next_shape_id |-> 1]

get_shape_by_id(doc, shape_id) ==
    IF shape_id \in DOMAIN doc.shapes
    THEN [some |-> TRUE, shape |-> doc.shapes[shape_id]]
    ELSE [some |-> FALSE]

generate_shape_id(doc) ==
    { [panic |-> o.panic,
       id |-> doc.next_shape_id,
       doc |-> IF o.panic THEN doc ELSE [doc EXCEPT !.next_shape_id = o.value]]
      : o \in usize_add_one(doc.next_shape_id) }

\* mutant: the id is pushed without looking for it in the sequence
upsert_shape_with_id_always_pushes(doc, shape_id, shape) ==
    LET d1 == [doc EXCEPT !.sequence = Append(doc.sequence, shape_id),
                          !.shapes = insert(doc.shapes, shape_id, shape)]
    IN  IF d1.next_shape_id <= shape_id
        THEN { [panic |-> o.panic,
                doc |-> IF o.panic THEN d1
                        ELSE [d1 EXCEPT !.next_shape_id = o.value]]
               : o \in usize_add_one(shape_id) }
        ELSE { [panic |-> FALSE, doc |-> d1] }

\* mutant: a new id is put at the bottom of the sequence
upsert_shape_with_id_inserts_at_bottom(doc, shape_id, shape) ==
    LET d1 == [doc EXCEPT !.sequence = IF contains(doc.sequence, shape_id)
                                       THEN doc.sequence
                                       ELSE <<shape_id>> \o doc.sequence,
                          !.shapes = insert(doc.shapes, shape_id, shape)]
    IN  IF d1.next_shape_id <= shape_id
        THEN { [panic |-> o.panic,
                doc |-> IF o.panic THEN d1
                        ELSE [d1 EXCEPT !.next_shape_id = o.value]]
               : o \in usize_add_one(shape_id) }
        ELSE { [panic |-> FALSE, doc |-> d1] }

\* mutant: an id already in the sequence is pulled to the top
upsert_shape_with_id_moves_to_top(doc, shape_id, shape) ==
    LET others == SelectSeq(doc.sequence, LAMBDA x : x # shape_id)
        d1 == [doc EXCEPT !.sequence = Append(others, shape_id),
                          !.shapes = insert(doc.shapes, shape_id, shape)]
    IN  IF d1.next_shape_id <= shape_id
        THEN { [panic |-> o.panic,
                doc |-> IF o.panic THEN d1
                        ELSE [d1 EXCEPT !.next_shape_id = o.value]]
               : o \in usize_add_one(shape_id) }
        ELSE { [panic |-> FALSE, doc |-> d1] }

upsert_shape_with_id(doc, shape_id, shape) ==
    LET pushed == IF ~contains(doc.sequence, shape_id)
                  THEN Append(doc.sequence, shape_id)
                  ELSE doc.sequence
        d1 == [doc EXCEPT !.sequence = pushed,
                          !.shapes = insert(doc.shapes, shape_id, shape)]
    IN  IF d1.next_shape_id <= shape_id
        THEN { [panic |-> o.panic,
                doc |-> IF o.panic THEN d1
                        ELSE [d1 EXCEPT !.next_shape_id = o.value]]
               : o \in usize_add_one(shape_id) }
        ELSE { [panic |-> FALSE, doc |-> d1] }

\* mutant: the id is dropped from the map but left in the sequence
delete_shape_with_id_keeps_sequence(doc, shape_id) ==
    [doc EXCEPT !.shapes = map_remove(doc.shapes, shape_id)]

\* mutant: an id that is not found removes the topmost id
delete_shape_with_id_pops_when_absent(doc, shape_id) ==
    LET idx == position(doc.sequence, shape_id)
        seq == IF idx # 0 THEN remove(doc.sequence, idx)
               ELSE SubSeq(doc.sequence, 1, Len(doc.sequence) - 1)
    IN  [doc EXCEPT !.sequence = seq,
                    !.shapes = map_remove(doc.shapes, shape_id)]

\* mutant: Vec::swap_remove, the last id takes the place of the removed one
delete_shape_with_id_swap_remove(doc, shape_id) ==
    LET idx == position(doc.sequence, shape_id)
        n == Len(doc.sequence)
        seq == IF idx = 0 THEN doc.sequence
               ELSE [i \in 1..(n - 1) |->
                        IF i = idx THEN doc.sequence[n] ELSE doc.sequence[i]]
    IN  [doc EXCEPT !.sequence = seq,
                    !.shapes = map_remove(doc.shapes, shape_id)]

delete_shape_with_id(doc, shape_id) ==
    LET idx == position(doc.sequence, shape_id)
        seq == IF idx # 0 THEN remove(doc.sequence, idx) ELSE doc.sequence
    IN  [doc EXCEPT !.sequence = seq,
                    !.shapes = map_remove(doc.shapes, shape_id)]

\* mutant: HashMap::entry(k).or_insert: an absent id gets a shape
update_geometry_for_shape_id_inserts(doc, shape_id, new_geometry) ==
    IF shape_id \in DOMAIN doc.shapes
    THEN [doc EXCEPT !.shapes[shape_id].geometry = new_geometry]
    ELSE [doc EXCEPT !.shapes = insert(doc.shapes, shape_id,
                                       Shape(new_geometry, Style("Red")))]

update_geometry_for_shape_id(doc, shape_id, new_geometry) ==
    IF shape_id \in DOMAIN doc.shapes
    THEN [doc EXCEPT !.shapes[shape_id].geometry = new_geometry]
    ELSE doc

\* mutant: the id is pushed on top and its old place in the sequence is kept
move_shape_with_id_to_top_copies(doc, shape_id) ==
    LET idx == position(doc.sequence, shape_id)
    IN  IF idx # 0 /\ idx # Len(doc.sequence)
        THEN [doc EXCEPT !.sequence = Append(doc.sequence, shape_id)]
        ELSE doc

\* mutant: the id is swapped with the topmost id
move_shape_with_id_to_top_swaps(doc, shape_id) ==
    LET idx == position(doc.sequence, shape_id)
        n == Len(doc.sequence)
    IN  IF idx # 0 /\ idx # n
        THEN [doc EXCEPT !.sequence =
                 [i \in 1..n |-> IF i = idx THEN doc.sequence[n]
                                 ELSE IF i = n THEN shape_id
                                 ELSE doc.sequence[i]]]
        ELSE doc

\* mutant: an id that is not in the sequence is pushed on top
move_shape_with_id_to_top_pushes_absent(doc, shape_id) ==
    LET idx == position(doc.sequence, shape_id)
    IN  IF idx = 0
        THEN [doc EXCEPT !.sequence = Append(doc.sequence, shape_id)]
        ELSE IF idx # Len(doc.sequence)
        THEN [doc EXCEPT !.sequence = Append(remove(doc.sequence, idx), shape_id)]
        ELSE doc

move_shape_with_id_to_top(doc, shape_id) ==
    LET idx == position(doc.sequence, shape_id)
    IN  IF idx # 0 /\ idx # Len(doc.sequence)
        THEN [doc EXCEPT !.sequence = Append(remove(doc.sequence, idx), shape_id)]
        ELSE doc

\* the loop of new_from_shapes, from the document built so far
\* new_from_pairs: the `for` loop over the pairs still to add.  The result is
\* Ok(doc), Err(DuplicateShapeId(id)), or a panic of the overflow check.
RECURSIVE new_from_pairs_loop(_, _)
new_from_pairs_loop(doc, pairs) ==
    IF pairs = << >>
    THEN { [panic |-> FALSE, kind |-> "Ok", doc |-> doc] }
    ELSE LET shape_id == pairs[1][1]
             shape == pairs[1][2]
         IN  IF shape_id \in DOMAIN doc.shapes
             THEN { [panic |-> FALSE, kind |-> "Err",
                     error |-> [kind |-> "DuplicateShapeId", id |-> shape_id]] }
             ELSE LET d1 == [doc EXCEPT
                               !.sequence = Append(doc.sequence, shape_id),
                               !.shapes = insert(doc.shapes, shape_id, shape)]
                  IN  IF d1.next_shape_id <= shape_id
                      THEN UNION {
                             IF o.panic
                             THEN { [panic |-> TRUE, kind |-> "Panic"] }
                             ELSE new_from_pairs_loop(
                                      [d1 EXCEPT !.next_shape_id = o.value],
                                      Tail(pairs))
                             : o \in usize_add_one(shape_id) }
                      ELSE new_from_pairs_loop(d1, Tail(pairs))

new_from_pairs(pairs) == new_from_pairs_loop(new_empty, pairs)

RECURSIVE new_from_shapes_loop(_, _)
new_from_shapes_loop(doc, shapes) ==
    IF shapes = <<>>
    THEN { [panic |-> FALSE, doc |-> doc] }
    ELSE UNION { IF g.panic
                 THEN { [panic |-> TRUE, doc |-> g.doc] }
                 ELSE UNION { IF u.panic
                              THEN { u }
                              ELSE new_from_shapes_loop(u.doc, Tail(shapes))
                              : u \in upsert_shape_with_id(g.doc, g.id, Head(shapes)) }
                 : g \in generate_shape_id(doc) }

new_from_shapes(shapes) == new_from_shapes_loop(new_empty, shapes)

demo_shapes ==
    << Shape(circle(100, 150, 80), Style("Blue")),
       Shape(circle(120, 120, 100), Style("Red")),
       Shape(circle(200, 90, 70), Style("Indigo")),
       Shape(rectangle(250, 80, 200, 20), Style("Violet")),
       Shape(rectangle(0, 0, 40, 40), Style("Black")),
       Shape(rectangle(40, 80, 40, 40), Style("Green")) >>

new_demo == (CHOOSE o \in new_from_shapes(demo_shapes) : ~o.panic).doc

\* shape_id_shapes_iter: the (id, shape) pairs in sequence order, ids without
\* a shape skipped
RECURSIVE shape_id_shapes_iter_from(_, _)
shape_id_shapes_iter_from(doc, seq) ==
    IF seq = <<>>
    THEN <<>>
    ELSE LET opt == get_shape_by_id(doc, Head(seq))
         IN  (IF opt.some THEN << <<Head(seq), opt.shape>> >> ELSE <<>>)
             \o shape_id_shapes_iter_from(doc, Tail(seq))

\* mutant: the pairs are produced from top to bottom
shape_id_shapes_iter_top_down(doc) ==
    LET it == shape_id_shapes_iter_from(doc, doc.sequence)
    IN  [i \in 1..Len(it) |-> it[Len(it) + 1 - i]]

shape_id_shapes_iter(doc) == shape_id_shapes_iter_from(doc, doc.sequence)

(***************************************************************************)
(* shapes_ui.rs: AppState (the color cycler)                               *)
(***************************************************************************)
AppState_default == [fill_color |-> "Red"]

\* mutant: the color is returned and stays the current color
get_fill_color_and_keep(state) ==
    [color |-> state.fill_color, state |-> state]

get_fill_color_and_advance(state) ==
    [color |-> state.fill_color,
     state |-> [state EXCEPT !.fill_color = advance(state.fill_color)]]

\* mutant: White is skipped ahead of time: when the color left for the next
\* call is White, the state is advanced once more
get_fill_color_and_advance_skipping_white_ahead(state) ==
    LET r == get_fill_color_and_advance(state)
    IN  IF r.state.fill_color = "White"
        THEN [color |-> r.color,
              state |-> get_fill_color_and_advance(r.state).state]
        ELSE r

\* mutant: a White result is returned like any other
get_fill_color_and_advance_keeping_white(state) ==
    get_fill_color_and_advance(state)

RECURSIVE get_fill_color_and_advance_skipping_white(_)
get_fill_color_and_advance_skipping_white(state) ==
    LET r == get_fill_color_and_advance(state)
    IN  IF r.color = "White"
        THEN get_fill_color_and_advance_skipping_white(r.state)
        ELSE r

(***************************************************************************)
(* shapes_ui.rs: trackers.  A MouseEvent is modelled by its page           *)
(* coordinates.  `gesture` stands for the identity of the Rc allocation:   *)
(* the serial number of the pointer-down that built the tracker.           *)
(***************************************************************************)
None == [kind |-> "None"]

\* mutant: the two coordinates are not ordered before subtracting
to_min_span_unordered(x1, x2) == <<x1, x2 - x1>>

to_min_span(x1, x2) == IF x1 < x2 THEN <<x1, x2 - x1>> ELSE <<x2, x1 - x2>>

xy_point_from_page_coordinates(mouse_event) ==
    XYPoint(mouse_event.x, mouse_event.y)

\* mutant: the tracker keeps the id below the one it is given
NewRectTracker_new_with_previous_id(mouse_down, shape_id, style, gesture) ==
    [kind |-> "NewRectTracker",
     mouse_down |-> xy_point_from_page_coordinates(mouse_down),
     shape_id |-> shape_id - 1, style |-> style, gesture |-> gesture]

NewRectTracker_new(mouse_down, shape_id, style, gesture) ==
    [kind |-> "NewRectTracker",
     mouse_down |-> xy_point_from_page_coordinates(mouse_down),
     shape_id |-> shape_id, style |-> style, gesture |-> gesture]

\* mutant: an empty rectangle is not posted, but no candidate is deleted
post_shape_for_event_no_delete(self, doc, mouse) ==
    LET event_coords == xy_point_from_page_coordinates(mouse)
        xs == to_min_span(self.mouse_down.x, event_coords.x)
        ys == to_min_span(self.mouse_down.y, event_coords.y)
    IN  IF 0 < xs[2] /\ 0 < ys[2]
        THEN upsert_shape_with_id(doc, self.shape_id,
                 Shape([kind |-> "Rectangle",
                        top_left |-> XYPoint(xs[1], ys[1]),
                        size |-> XYPoint(xs[2], ys[2])],
                       self.style))
        ELSE { [panic |-> FALSE, doc |-> doc] }

\* mutant: the rectangle is posted whatever its spans are
post_shape_for_event_always_upserts(self, doc, mouse) ==
    LET event_coords == xy_point_from_page_coordinates(mouse)
        xs == to_min_span(self.mouse_down.x, event_coords.x)
        ys == to_min_span(self.mouse_down.y, event_coords.y)
    IN  upsert_shape_with_id(doc, self.shape_id,
            Shape([kind |-> "Rectangle",
                   top_left |-> XYPoint(xs[1], ys[1]),
                   size |-> XYPoint(xs[2], ys[2])],
                  self.style))

post_shape_for_event(self, doc, mouse) ==
    LET event_coords == xy_point_from_page_coordinates(mouse)
        xs == to_min_span(self.mouse_down.x, event_coords.x)
        ys == to_min_span(self.mouse_down.y, event_coords.y)
    IN  IF 0 < xs[2] /\ 0 < ys[2]
        THEN upsert_shape_with_id(doc, self.shape_id,
                 Shape([kind |-> "Rectangle",
                        top_left |-> XYPoint(xs[1], ys[1]),
                        size |-> XYPoint(xs[2], ys[2])],
                       self.style))
        ELSE { [panic |-> FALSE, doc |-> delete_shape_with_id(doc, self.shape_id)] }

\* mutant: the tracker ends its gesture on the first move
NewRectTracker_track_mouse_move_done(self, doc, evt) ==
    { [panic |-> o.panic, doc |-> o.doc, next |-> "Done"]
      : o \in post_shape_for_event(self, doc, evt) }

NewRectTracker_track_mouse_move(self, doc, evt) ==
    { [panic |-> o.panic, doc |-> o.doc, next |-> "Continue"]
      : o \in post_shape_for_event(self, doc, evt) }

\* mutant: the pointer-up posts nothing and keeps what the last move posted
NewRectTracker_track_mouse_up_no_post(self, doc, evt) ==
    { [panic |-> FALSE, doc |-> doc] }

NewRectTracker_track_mouse_up(self, doc, evt) ==
    post_shape_for_event(self, doc, evt)

ShapeDragTracker_new(mouse_down, shape_id, initial_geometry, gesture) ==
    [kind |-> "ShapeDragTracker",
     mouse_down |-> xy_point_from_page_coordinates(mouse_down),
     shape_id |-> shape_id, initial_geometry |-> initial_geometry,
     gesture |-> gesture]

\* mutant: the offset is added to the geometry the shape has now, not to the
\* geometry captured at the pointer-down
update_shape_for_drag_accumulates(self, doc, mouse) ==
    LET event_coords == xy_point_from_page_coordinates(mouse)
        delta == subtract(event_coords, self.mouse_down)
    IN  { [panic |-> FALSE,
           doc |-> IF self.shape_id \in DOMAIN doc.shapes
                   THEN update_geometry_for_shape_id(doc, self.shape_id,
                            offset_by(doc.shapes[self.shape_id].geometry, delta))
                   ELSE doc] }

update_shape_for_drag(self, doc, mouse) ==
    LET event_coords == xy_point_from_page_coordinates(mouse)
        delta == subtract(event_coords, self.mouse_down)
        new_geometry == offset_by(self.initial_geometry, delta)
    IN  { [panic |-> FALSE,
           doc |-> update_geometry_for_shape_id(doc, self.shape_id, new_geometry)] }

\* mutant: the drag ends its gesture on the first move
ShapeDragTracker_track_mouse_move_done(self, doc, evt) ==
    { [panic |-> o.panic, doc |-> o.doc, next |-> "Done"]
      : o \in update_shape_for_drag(self, doc, evt) }

ShapeDragTracker_track_mouse_move(self, doc, evt) ==
    { [panic |-> o.panic, doc |-> o.doc, next |-> "Continue"]
      : o \in update_shape_for_drag(self, doc, evt) }

ShapeDragTracker_track_mouse_up(self, doc, evt) ==
    update_shape_for_drag(self, doc, evt)

\* dyn Tracker dispatch
track_mouse_move(tracker, doc, evt) ==
    IF tracker.kind = "NewRectTracker"
    THEN NewRectTracker_track_mouse_move(tracker, doc, evt)
    ELSE ShapeDragTracker_track_mouse_move(tracker, doc, evt)

track_mouse_up(tracker, doc, evt) ==
    IF tracker.kind = "NewRectTracker"
    THEN NewRectTracker_track_mouse_up(tracker, doc, evt)
    ELSE ShapeDragTracker_track_mouse_up(tracker, doc, evt)

(***************************************************************************)
(* shapes_ui.rs: components.  A render runs the component bodies: the      *)
(* canvas closures capture the tracker read from CANVAS_TRACKER, and each  *)
(* rendered shape's closure captures its id and a clone of its geometry.   *)
(* Both components read a signal, so a handler's write to that signal      *)
(* re-runs them before the next event is handled.                          *)
(***************************************************************************)
\* mutant: the mouse-up closure does not get the tracker
SvgCanvasDiv_no_mouse_up(canvas_tracker) ==
    [opt_mouse_move_tracker |-> canvas_tracker, opt_mouse_up_tracker |-> None]

\* mutant: the mouse-move closure does not get the tracker
SvgCanvasDiv_no_mouse_move(canvas_tracker) ==
    [opt_mouse_move_tracker |-> None, opt_mouse_up_tracker |-> canvas_tracker]

SvgCanvasDiv(canvas_tracker) ==
    [opt_mouse_move_tracker |-> canvas_tracker,
     opt_mouse_up_tracker |-> canvas_tracker]

\* mutant: the closure of a demo shape captures the geometry the demo
\* document gave the shape
render_shape_demo_geometry(shape_id, shape) ==
    [shape_id |-> shape_id,
     initial_geometry |-> IF shape_id \in DOMAIN new_demo.shapes
                          THEN new_demo.shapes[shape_id].geometry
                          ELSE shape.geometry]

render_shape(shape_id, shape) ==
    [shape_id |-> shape_id, initial_geometry |-> shape.geometry]

RenderedShapes(doc) ==
    LET it == shape_id_shapes_iter(doc)
    IN  [i \in 1..Len(it) |-> render_shape(it[i][1], it[i][2])]

\* mutant: clearing the slot does not re-run SvgCanvasDiv, whose closures
\* keep the tracker they captured
render_keeps_closures(canvas_tracker, doc) ==
    [canvas |-> IF canvas_tracker = None
                THEN rendered.canvas
                ELSE SvgCanvasDiv(canvas_tracker),
     shapes |-> RenderedShapes(doc)]

render(canvas_tracker, doc) ==
    [canvas |-> SvgCanvasDiv(canvas_tracker), shapes |-> RenderedShapes(doc)]

(***************************************************************************)
(* Inputs.                                                                 *)
(***************************************************************************)
\* page coordinates of the pointer: between two of these points each of x
\* and y is less, greater and equal
MouseEvents == { XYPoint(10, 10), XYPoint(60, 10), XYPoint(60, 40) }

\* ids handed to the Document API by a caller: small ones and the two largest
InputIds == {0, 1, UsizeMax - 1, UsizeMax}

InputShapes ==
    { Shape(rectangle(10, 10, 50, 30), Style("Orange")),
      Shape(circle(60, 40, 10), Style("White")) }

InputGeometries == { circle(10, 10, 5), rectangle(0, 0, 40, 40) }

\* the rendered shapes the pointer is pressed on: a demo circle, a demo
\* rectangle and every rectangle drawn since
PressedShapeIds == {1, 4} \cup (new_demo.next_shape_id..UsizeMax)

(***************************************************************************)
(* document.rs and application_state.rs.  A file is absent, holds bytes    *)
(* that are no JSON of a Document, or holds the JSON of one; opening,      *)
(* creating, reading and writing a file can fail at any call, and each     *)
(* operation gives the set of its outcomes.                                *)
(***************************************************************************)
Some(x) == [kind |-> "Some", value |-> x]

NoFile == [kind |-> "NoFile"]
NotJson == [kind |-> "NotJson"]

\* document.rs: Document::new
Document_new == [html |-> "New Document"]

\* serde_json::to_writer_pretty of the derived Serialize: an object with the
\* one member "html"
to_writer_pretty(document) ==
    [kind |-> "Json", members |-> [html |-> document.html]]

\* serde_json::from_reader of the derived Deserialize
from_reader(content) ==
    IF content.kind = "Json" /\ "html" \in DOMAIN content.members
    THEN { [kind |-> "Ok", document |-> [html |-> content.members.html]] }
    ELSE { [kind |-> "Err", error |-> "Invalid json"] }

\* document.rs: Document::new_from_file
new_from_file(fs, p) ==
    \* File::open fails
    { [kind |-> "Err", error |-> "Failed to open"] }
    \cup IF fs[p] = NoFile THEN {}
         ELSE \* the file is open: the read fails, or the content is parsed
              { [kind |-> "Err", error |-> "Invalid json"] }
              \cup from_reader(fs[p])

\* document.rs: Document::save_to_file
save_to_file(self, fs, p) ==
    { \* File::create fails
      [kind |-> "Err", error |-> "Failed to create", files |-> fs],
      \* File::create has truncated the file and the write fails
      [kind |-> "Err", error |-> "Failed to write",
       files |-> [fs EXCEPT ![p] = NotJson]],
      [kind |-> "Ok", files |-> [fs EXCEPT ![p] = to_writer_pretty(self)]] }

\* the files in the working directory when the application starts
Paths == { "image.json", "copy.json", "notes.txt" }

InitFiles ==
    [p \in Paths |->
        CASE p = "image.json" -> to_writer_pretty([html |-> "image"])
          [] p = "copy.json"  -> NoFile
          [] OTHER            -> NotJson]

\* application_state.rs: ApplicationState::new, which panics unless
\* image.json is read
ApplicationState_new(fs) ==
    { [the_only_document |-> r.document,
       current_file_path |-> Some("image.json")]
      : r \in { o \in new_from_file(fs, "image.json") : o.kind = "Ok" } }

new_document(self) ==
    [the_only_document |-> Document_new, current_file_path |-> None]

\* mutant: the path is set before the file is read
load_document_sets_path_first(self, fs, path) ==
    { IF r.kind = "Ok"
      THEN [kind |-> "Ok",
            self |-> [the_only_document |-> r.document,
                      current_file_path |-> Some(path)]]
      ELSE [kind |-> "Err", error |-> r.error,
            self |-> [self EXCEPT !.current_file_path = Some(path)]]
      : r \in new_from_file(fs, path) }

load_document(self, fs, path) ==
    { IF r.kind = "Ok"
      THEN [kind |-> "Ok",
            self |-> [the_only_document |-> r.document,
                      current_file_path |-> Some(path)]]
      ELSE [kind |-> "Err", error |-> r.error, self |-> self]
      : r \in new_from_file(fs, path) }

\* mutant: without a path the document is saved to image.json
save_document_to_default_path(self, fs) ==
    IF self.current_file_path.kind = "Some"
    THEN save_to_file(self.the_only_document, fs,
                      self.current_file_path.value)
    ELSE save_to_file(self.the_only_document, fs, "image.json")

save_document(self, fs) ==
    IF self.current_file_path.kind = "Some"
    THEN save_to_file(self.the_only_document, fs,
                      self.current_file_path.value)
    ELSE { [kind |-> "Err",
            error |-> "No file path set - use Save As instead",
            files |-> fs] }

save_document_as(self, fs, path) ==
    { [kind |-> r.kind,
       self |-> IF r.kind = "Ok"
                THEN [self EXCEPT !.current_file_path = Some(path)]
                ELSE self,
       files |-> r.files]
      : r \in save_to_file(self.the_only_document, fs, path) }

(***************************************************************************)
(* Spec: the event handlers of shapes_ui.rs.  Each action is one handler   *)
(* run to completion, followed by the re-render its signal writes cause.   *)
(***************************************************************************)
Init ==
    /\ DOC = new_demo
    /\ APP_STATE = AppState_default
    /\ CANVAS_TRACKER = None
    /\ rendered = [canvas |-> SvgCanvasDiv(None),
                   shapes |-> RenderedShapes(new_demo)]
    /\ panicked = FALSE
    /\ used = DOMAIN new_demo.shapes
    /\ last = [op |-> "init", start |-> new_demo]
    /\ calls = 0
    /\ gestures = 0
    /\ files = InitFiles
    /\ application_state \in ApplicationState_new(InitFiles)

\* Background: onmousedown
canvas_mouse_down(evt) ==
    /\ ~panicked
    /\ gestures < MaxGestures
    /\ \E g \in generate_shape_id(DOC) :
          /\ DOC' = g.doc
          /\ panicked' = g.panic
          /\ IF g.panic
             THEN UNCHANGED <<APP_STATE, CANVAS_TRACKER, rendered, used>>
             ELSE LET c == get_fill_color_and_advance_skipping_white(APP_STATE)
                      tracker == NewRectTracker_new(evt, g.id, Style(c.color),
                                                    gestures + 1)
                  IN  /\ APP_STATE' = c.state
                      /\ CANVAS_TRACKER' = tracker
                      /\ rendered' = render(tracker, g.doc)
                      /\ used' = used \cup {g.id}
    /\ last' = [op |-> "canvas_mouse_down", point |-> evt,
                before |-> CANVAS_TRACKER,
                \* the document the handler leaves to the gesture
                start |-> DOC']
    /\ gestures' = gestures + 1
    /\ UNCHANGED calls
    /\ UNCHANGED <<application_state, files>>

\* render_shape: onmousedown of the i-th rendered shape
shape_mouse_down(i, evt) ==
    /\ ~panicked
    /\ gestures < MaxGestures
    /\ i \in DOMAIN rendered.shapes
    /\ LET tracker == ShapeDragTracker_new(evt, rendered.shapes[i].shape_id,
                          rendered.shapes[i].initial_geometry, gestures + 1)
       IN  /\ CANVAS_TRACKER' = tracker
           /\ rendered' = render(tracker, DOC)
    /\ last' = [op |-> "shape_mouse_down", point |-> evt,
                before |-> CANVAS_TRACKER, start |-> DOC]
    /\ gestures' = gestures + 1
    /\ UNCHANGED <<DOC, APP_STATE, panicked, used, calls>>
    /\ UNCHANGED <<application_state, files>>

\* SvgCanvasDiv: onmousemove
mouse_move_handler(evt) ==
    /\ ~panicked
    /\ LET tracker == rendered.canvas.opt_mouse_move_tracker
       IN  IF tracker # None
           THEN \E o \in track_mouse_move(tracker, DOC, evt) :
                   /\ DOC' = o.doc
                   /\ panicked' = o.panic
                   /\ CANVAS_TRACKER' = IF ~o.panic /\ o.next = "Done"
                                        THEN None
                                        ELSE CANVAS_TRACKER
                   /\ rendered' = IF o.panic
                                  THEN rendered
                                  ELSE render(CANVAS_TRACKER', o.doc)
                   /\ used' = used \cup DOMAIN o.doc.shapes
                   /\ last' = [op |-> "mouse_move", point |-> evt,
                               before |-> CANVAS_TRACKER,
                               start |-> last.start,
                               tracker |-> tracker,
                               called |-> <<"track_mouse_move">>,
                               had_shape |-> tracker.shape_id \in DOMAIN DOC.shapes]
           ELSE /\ last' = [op |-> "mouse_move", point |-> evt,
                            before |-> CANVAS_TRACKER,
                            start |-> last.start,
                            tracker |-> None, called |-> <<>>,
                            had_shape |-> FALSE]
                /\ UNCHANGED <<DOC, CANVAS_TRACKER, rendered, panicked, used>>
    /\ UNCHANGED <<APP_STATE, calls, gestures>>
    /\ UNCHANGED <<application_state, files>>

\* mutant: the pointer-up calls the tracker and leaves it in the slot
mouse_up_handler_keeps_tracker(evt) ==
    /\ ~panicked
    /\ LET tracker == rendered.canvas.opt_mouse_up_tracker
       IN  IF tracker # None
           THEN \E o \in track_mouse_up(tracker, DOC, evt) :
                   /\ DOC' = o.doc
                   /\ panicked' = o.panic
                   /\ rendered' = IF o.panic
                                  THEN rendered
                                  ELSE render(CANVAS_TRACKER, o.doc)
                   /\ used' = used \cup DOMAIN o.doc.shapes
                   /\ last' = [op |-> "mouse_up", point |-> evt,
                               before |-> CANVAS_TRACKER,
                               start |-> last.start,
                               tracker |-> tracker,
                               called |-> <<"track_mouse_up">>,
                               had_shape |-> tracker.shape_id \in DOMAIN DOC.shapes]
           ELSE /\ last' = [op |-> "mouse_up", point |-> evt,
                            before |-> CANVAS_TRACKER,
                            start |-> last.start,
                            tracker |-> None, called |-> <<>>,
                            had_shape |-> FALSE]
                /\ UNCHANGED <<DOC, rendered, panicked, used>>
    /\ UNCHANGED <<APP_STATE, CANVAS_TRACKER, calls, gestures>>
    /\ UNCHANGED <<application_state, files>>

\* SvgCanvasDiv: onmouseup
mouse_up_handler(evt) ==
    /\ ~panicked
    /\ LET tracker == rendered.canvas.opt_mouse_up_tracker
       IN  IF tracker # None
           THEN \E o \in track_mouse_up(tracker, DOC, evt) :
                   /\ DOC' = o.doc
                   /\ panicked' = o.panic
                   /\ CANVAS_TRACKER' = IF o.panic THEN CANVAS_TRACKER ELSE None
                   /\ rendered' = IF o.panic
                                  THEN rendered
                                  ELSE render(CANVAS_TRACKER', o.doc)
                   /\ used' = used \cup DOMAIN o.doc.shapes
                   /\ last' = [op |-> "mouse_up", point |-> evt,
                               before |-> CANVAS_TRACKER,
                               start |-> last.start,
                               tracker |-> tracker,
                               called |-> <<"track_mouse_up">>,
                               had_shape |-> tracker.shape_id \in DOMAIN DOC.shapes]
           ELSE /\ last' = [op |-> "mouse_up", point |-> evt,
                            before |-> CANVAS_TRACKER,
                            start |-> last.start,
                            tracker |-> None, called |-> <<>>,
                            had_shape |-> FALSE]
                /\ UNCHANGED <<DOC, CANVAS_TRACKER, rendered, panicked, used>>
    /\ UNCHANGED <<APP_STATE, calls, gestures>>
    /\ UNCHANGED <<application_state, files>>

Next ==
    \/ \E evt \in MouseEvents : canvas_mouse_down(evt)
    \/ \E evt \in MouseEvents : \E i \in DOMAIN rendered.shapes :
          /\ rendered.shapes[i].shape_id \in PressedShapeIds
          /\ shape_mouse_down(i, evt)
    \/ \E evt \in MouseEvents : mouse_move_handler(evt)
    \/ \E evt \in MouseEvents : mouse_up_handler(evt)

Spec == Init /\ [][Next]_vars

\* Spec with every pointer-up that the browser has for the canvas delivered:
\* the onmouseup handler is not left waiting for ever
SpecLive == Spec /\ WF_vars(\E evt \in MouseEvents : mouse_up_handler(evt))

(***************************************************************************)
(* SpecDoc: the public mutators of Document, called in any order.          *)
(***************************************************************************)
\* a call of new_from_pairs whose ids are not in increasing order
pairs_doc_input ==
    << <<3, Shape(circle(10, 10, 5), Style("Green"))>>,
       <<0, Shape(rectangle(0, 0, 40, 40), Style("Black"))>> >>

InitDoc ==
    /\ DOC \in {new_empty, new_demo}
               \cup { r.doc : r \in { o \in new_from_pairs(pairs_doc_input) :
                                        o.kind = "Ok" } }
    /\ APP_STATE = AppState_default
    /\ CANVAS_TRACKER = None
    /\ rendered = [canvas |-> SvgCanvasDiv(None), shapes |-> RenderedShapes(DOC)]
    /\ panicked = FALSE
    /\ used = DOMAIN DOC.shapes
    /\ last = [op |-> "init"]
    /\ calls = 0
    /\ gestures = 0
    /\ files = InitFiles
    /\ application_state \in ApplicationState_new(InitFiles)

call_generate_shape_id ==
    /\ ~panicked
    /\ calls < MaxOps
    /\ \E g \in generate_shape_id(DOC) :
          /\ DOC' = g.doc
          /\ panicked' = g.panic
          /\ used' = IF g.panic THEN used ELSE used \cup {g.id}
          /\ last' = [op |-> "generate_shape_id", panic |-> g.panic,
                      ret |-> g.id]
    /\ calls' = calls + 1
    /\ UNCHANGED <<APP_STATE, CANVAS_TRACKER, rendered, gestures>>
    /\ UNCHANGED <<application_state, files>>

call_upsert_shape_with_id(shape_id, shape) ==
    /\ ~panicked
    /\ calls < MaxOps
    /\ \E u \in upsert_shape_with_id(DOC, shape_id, shape) :
          /\ DOC' = u.doc
          /\ panicked' = u.panic
    /\ used' = used \cup {shape_id}
    /\ last' = [op |-> "upsert_shape_with_id", shape_id |-> shape_id,
                shape |-> shape,
                \* whether the call before this one was the same call
                repeated |-> /\ last.op = "upsert_shape_with_id"
                             /\ last.shape_id = shape_id
                             /\ last.shape = shape]
    /\ calls' = calls + 1
    /\ UNCHANGED <<APP_STATE, CANVAS_TRACKER, rendered, gestures>>
    /\ UNCHANGED <<application_state, files>>

call_delete_shape_with_id(shape_id) ==
    /\ ~panicked
    /\ calls < MaxOps
    /\ DOC' = delete_shape_with_id(DOC, shape_id)
    /\ last' = [op |-> "delete_shape_with_id", shape_id |-> shape_id]
    /\ calls' = calls + 1
    /\ UNCHANGED <<APP_STATE, CANVAS_TRACKER, rendered, panicked, used, gestures>>
    /\ UNCHANGED <<application_state, files>>

call_update_geometry_for_shape_id(shape_id, new_geometry) ==
    /\ ~panicked
    /\ calls < MaxOps
    /\ DOC' = update_geometry_for_shape_id(DOC, shape_id, new_geometry)
    /\ last' = [op |-> "update_geometry_for_shape_id", shape_id |-> shape_id,
                new_geometry |-> new_geometry]
    /\ calls' = calls + 1
    /\ UNCHANGED <<APP_STATE, CANVAS_TRACKER, rendered, panicked, used, gestures>>
    /\ UNCHANGED <<application_state, files>>

call_move_shape_with_id_to_top(shape_id) ==
    /\ ~panicked
    /\ calls < MaxOps
    /\ DOC' = move_shape_with_id_to_top(DOC, shape_id)
    /\ last' = [op |-> "move_shape_with_id_to_top", shape_id |-> shape_id]
    /\ calls' = calls + 1
    /\ UNCHANGED <<APP_STATE, CANVAS_TRACKER, rendered, panicked, used, gestures>>
    /\ UNCHANGED <<application_state, files>>

NextDoc ==
    \/ call_generate_shape_id
    \/ \E id \in InputIds : \E shape \in InputShapes :
          call_upsert_shape_with_id(id, shape)
    \/ \E id \in InputIds : call_delete_shape_with_id(id)
    \/ \E id \in InputIds : \E g \in InputGeometries :
          call_update_geometry_for_shape_id(id, g)
    \/ \E id \in InputIds : call_move_shape_with_id_to_top(id)

SpecDoc == InitDoc /\ [][NextDoc]_vars

(***************************************************************************)
(* SpecColor: the two fill-color methods of AppState, called in any order  *)
(* on the state AppState::default() makes.  `run` lists the colors that    *)
(* the latest unbroken run of calls of one method has returned.            *)
(***************************************************************************)
InitColor ==
    /\ DOC = new_demo
    /\ APP_STATE = AppState_default
    /\ CANVAS_TRACKER = None
    /\ rendered = [canvas |-> SvgCanvasDiv(None),
                   shapes |-> RenderedShapes(new_demo)]
    /\ panicked = FALSE
    /\ used = DOMAIN new_demo.shapes
    /\ last = [op |-> "init"]
    /\ calls = 0
    /\ gestures = 0
    /\ files = InitFiles
    /\ application_state \in ApplicationState_new(InitFiles)

call_get_fill_color_and_advance ==
    /\ calls < MaxColorCalls
    /\ LET r == get_fill_color_and_advance(APP_STATE)
       IN  /\ APP_STATE' = r.state
           /\ last' = [op |-> "get_fill_color_and_advance",
                       before |-> APP_STATE.fill_color,
                       color |-> r.color,
                       run |-> IF last.op = "get_fill_color_and_advance"
                               THEN Append(last.run, r.color)
                               ELSE <<r.color>>]
    /\ calls' = calls + 1
    /\ UNCHANGED <<DOC, CANVAS_TRACKER, rendered, panicked, used, gestures>>
    /\ UNCHANGED <<application_state, files>>

call_get_fill_color_and_advance_skipping_white ==
    /\ calls < MaxColorCalls
    /\ LET r == get_fill_color_and_advance_skipping_white(APP_STATE)
       IN  /\ APP_STATE' = r.state
           /\ last' = [op |-> "get_fill_color_and_advance_skipping_white",
                       before |-> APP_STATE.fill_color,
                       color |-> r.color,
                       run |-> IF last.op =
                                    "get_fill_color_and_advance_skipping_white"
                               THEN Append(last.run, r.color)
                               ELSE <<r.color>>]
    /\ calls' = calls + 1
    /\ UNCHANGED <<DOC, CANVAS_TRACKER, rendered, panicked, used, gestures>>
    /\ UNCHANGED <<application_state, files>>

NextColor ==
    \/ call_get_fill_color_and_advance
    \/ call_get_fill_color_and_advance_skipping_white

SpecColor == InitColor /\ [][NextColor]_vars

(***************************************************************************)
(* SpecPairs: one call of a constructor of Document, on a list of at most   *)
(* MaxPairs pairs or shapes, from the empty document.                      *)
(***************************************************************************)
\* the (id, shape) pairs a caller passes
InputPairs == InputIds \X InputShapes

RECURSIVE SeqsUpTo(_, _)
\* the lists of at most n elements of S
SeqsUpTo(S, n) ==
    IF n = 0 THEN { << >> }
    ELSE LET shorter == SeqsUpTo(S, n - 1)
         IN  shorter \cup { Append(q, x) : q \in shorter, x \in S }

InitPairs ==
    /\ DOC = new_empty
    /\ APP_STATE = AppState_default
    /\ CANVAS_TRACKER = None
    /\ rendered = [canvas |-> SvgCanvasDiv(None),
                   shapes |-> RenderedShapes(new_empty)]
    /\ panicked = FALSE
    /\ used = {}
    /\ last = [op |-> "init"]
    /\ calls = 0
    /\ gestures = 0
    /\ files = InitFiles
    /\ application_state \in ApplicationState_new(InitFiles)

call_new_from_pairs(pairs) ==
    /\ calls = 0
    /\ \E r \in new_from_pairs(pairs) :
          /\ DOC' = IF r.kind = "Ok" THEN r.doc ELSE DOC
          /\ panicked' = r.panic
          /\ last' = [op |-> "new_from_pairs", pairs |-> pairs, result |-> r]
    /\ used' = { pairs[i][1] : i \in 1..Len(pairs) }
    /\ calls' = 1
    /\ UNCHANGED <<APP_STATE, CANVAS_TRACKER, rendered, gestures>>
    /\ UNCHANGED <<application_state, files>>

call_new_from_shapes(shapes) ==
    /\ calls = 0
    /\ \E r \in new_from_shapes(shapes) :
          /\ DOC' = r.doc
          /\ panicked' = r.panic
    /\ last' = [op |-> "new_from_shapes", shapes |-> shapes]
    /\ used' = DOMAIN DOC'.shapes
    /\ calls' = 1
    /\ UNCHANGED <<APP_STATE, CANVAS_TRACKER, rendered, gestures>>
    /\ UNCHANGED <<application_state, files>>

call_new_demo ==
    /\ calls = 0
    /\ DOC' = new_demo
    /\ last' = [op |-> "new_demo"]
    /\ used' = DOMAIN DOC'.shapes
    /\ calls' = 1
    /\ UNCHANGED <<APP_STATE, CANVAS_TRACKER, rendered, panicked, gestures>>
    /\ UNCHANGED <<application_state, files>>

\* one constructor call on each behaviour
NextPairs ==
    \/ /\ calls = 0
       /\ \E pairs \in SeqsUpTo(InputPairs, MaxPairs) :
             call_new_from_pairs(pairs)
    \/ /\ calls = 0
       /\ \E shapes \in SeqsUpTo(InputShapes, MaxPairs) :
             call_new_from_shapes(shapes)
    \/ call_new_demo

SpecPairs == InitPairs /\ [][NextPairs]_vars

(***************************************************************************)
(* SpecApp: the methods of ApplicationState, called in any order on the    *)
(* state that ApplicationState::new built.                                 *)
(***************************************************************************)
InitApp ==
    /\ DOC = new_demo
    /\ APP_STATE = AppState_default
    /\ CANVAS_TRACKER = None
    /\ rendered = [canvas |-> SvgCanvasDiv(None),
                   shapes |-> RenderedShapes(new_demo)]
    /\ panicked = FALSE
    /\ used = DOMAIN new_demo.shapes
    /\ last = [op |-> "init"]
    /\ calls = 0
    /\ gestures = 0
    /\ files = InitFiles
    /\ application_state \in ApplicationState_new(InitFiles)

call_new_document ==
    /\ application_state' = new_document(application_state)
    /\ last' = [op |-> "new_document"]
    /\ UNCHANGED files
    /\ UNCHANGED <<DOC, APP_STATE, CANVAS_TRACKER, rendered, panicked, used,
                   calls, gestures>>

call_load_document(path) ==
    /\ \E r \in load_document(application_state, files, path) :
          /\ application_state' = r.self
          /\ last' = [op |-> "load_document", path |-> path,
                      result |-> r.kind]
    /\ UNCHANGED files
    /\ UNCHANGED <<DOC, APP_STATE, CANVAS_TRACKER, rendered, panicked, used,
                   calls, gestures>>

call_save_document ==
    /\ \E r \in save_document(application_state, files) :
          /\ files' = r.files
          /\ last' = [op |-> "save_document", result |-> r.kind]
    /\ UNCHANGED application_state
    /\ UNCHANGED <<DOC, APP_STATE, CANVAS_TRACKER, rendered, panicked, used,
                   calls, gestures>>

call_save_document_as(path) ==
    /\ \E r \in save_document_as(application_state, files, path) :
          /\ application_state' = r.self
          /\ files' = r.files
          /\ last' = [op |-> "save_document_as", path |-> path,
                      result |-> r.kind]
    /\ UNCHANGED <<DOC, APP_STATE, CANVAS_TRACKER, rendered, panicked, used,
                   calls, gestures>>

NextApp ==
    \/ call_new_document
    \/ \E path \in Paths : call_load_document(path)
    \/ call_save_document
    \/ \E path \in Paths : call_save_document_as(path)

SpecApp == InitApp /\ [][NextApp]_vars

(***************************************************************************)
(* Properties.                                                             *)
(***************************************************************************)
SeqIds(seq) == { seq[i] : i \in 1..Len(seq) }

Min(a, b) == IF a <= b THEN a ELSE b

Abs(a) == IF a < 0 THEN -a ELSE a

PointerDown ==
    \/ \E evt \in MouseEvents : canvas_mouse_down(evt)
    \/ \E evt \in MouseEvents : \E i \in DOMAIN rendered.shapes :
          shape_mouse_down(i, evt)

PointerMove == \E evt \in MouseEvents : mouse_move_handler(evt)

PointerUp == \E evt \in MouseEvents : mouse_up_handler(evt)

\* the last event was a pointer-move or pointer-up given to a NewRectTracker
PostedByNewRectTracker ==
    /\ last.op \in {"mouse_move", "mouse_up"}
    /\ last.tracker.kind = "NewRectTracker"

\* C1 (SpecDoc): after every call of upsert, delete, update_geometry,
\* move_to_top or generate, on an empty or demo document, the set of ids in
\* `sequence` equals the key set of `shapes`.
C1_SequenceIdsAreShapeKeys == SeqIds(DOC.sequence) = DOMAIN DOC.shapes

\* an id that was in the document has been deleted from a document that still
\* holds other shapes
C1_Witness ==
    /\ last.op = "delete_shape_with_id"
    /\ last.shape_id \in used
    /\ last.shape_id \notin DOMAIN DOC.shapes
    /\ DOC.sequence # <<>>
    /\ calls >= 2

\* C2 (SpecDoc), the claim as stated: after every call next_shape_id is
\* strictly greater than every id ever passed to upsert or returned by
\* generate, and no call decreases next_shape_id.  (States in which an
\* overflow check has panicked are not counted.)
C2_NextShapeIdAboveEveryUsedId ==
    [][ ~panicked' =>
          /\ \A id \in used' : DOC'.next_shape_id > id
          /\ DOC'.next_shape_id >= DOC.next_shape_id ]_vars

\* C3 (SpecDoc), the claim as stated: an id returned by generate_shape_id was
\* never returned by generate_shape_id or passed to upsert before.
C3_GeneratedIdNeverUsedBefore ==
    [][ (call_generate_shape_id /\ ~panicked') => last'.ret \notin used ]_vars

\* C4 (SpecDoc), the claim as stated: generate_shape_id returns next_shape_id,
\* increments it by exactly one and leaves shapes and sequence alone; of two
\* consecutive calls the second returns the larger id.
C4_GenerateReturnsNextAndIncrements ==
    [][ (call_generate_shape_id /\ ~panicked') =>
          /\ last'.ret = DOC.next_shape_id
          /\ DOC'.next_shape_id = DOC.next_shape_id + 1
          /\ DOC'.shapes = DOC.shapes
          /\ DOC'.sequence = DOC.sequence
          /\ (last.op = "generate_shape_id" => last'.ret > last.ret) ]_vars

\* C5 (Spec): the tracker slot starts empty; a pointer-down on the background
\* or on a shape installs the tracker of that gesture; a pointer-up handled
\* while a tracker is installed calls that tracker's track_mouse_up once (the
\* document becomes what one call makes of it) and leaves the slot empty.
C5_TrackerSlotLifecycle ==
    /\ CANVAS_TRACKER = None
    /\ [][ /\ PointerDown =>
                /\ CANVAS_TRACKER' # None
                /\ CANVAS_TRACKER'.gesture = gestures'
                /\ CANVAS_TRACKER'.mouse_down = last'.point
           /\ \A evt \in MouseEvents :
                (mouse_up_handler(evt) /\ CANVAS_TRACKER # None) =>
                   /\ last'.called = <<"track_mouse_up">>
                   /\ last'.tracker = CANVAS_TRACKER
                   /\ DOC' \in { o.doc : o \in track_mouse_up(CANVAS_TRACKER, DOC, evt) }
                   /\ CANVAS_TRACKER' = None ]_vars

\* a pointer-up was handled while a tracker was installed, and the slot is empty
C5_Witness ==
    /\ last.op = "mouse_up"
    /\ last.before # None
    /\ CANVAS_TRACKER = None

\* C6 (Spec), the claim as stated: an installed tracker stays the installed
\* tracker until a pointer-up; no other event removes or replaces it.
C6_TrackerStaysUntilPointerUp ==
    [][ CANVAS_TRACKER # None =>
          (CANVAS_TRACKER' = CANVAS_TRACKER \/ PointerUp) ]_vars

\* C6 as amended (Spec): while a tracker is installed a pointer-move leaves it
\* installed, and the slot changes only by a pointer-up, which empties it, or
\* by a pointer-down, which replaces it by the tracker of the new gesture.
C6_TrackerReplacedOnlyByPointerDown ==
    [][ CANVAS_TRACKER # None =>
          /\ PointerMove => CANVAS_TRACKER' = CANVAS_TRACKER
          /\ CANVAS_TRACKER' # CANVAS_TRACKER =>
                \/ PointerUp /\ CANVAS_TRACKER' = None
                \/ /\ PointerDown
                   /\ CANVAS_TRACKER' # None
                   /\ CANVAS_TRACKER'.gesture = gestures' ]_vars

\* a pointer-down was handled while the tracker of an earlier gesture was
\* installed, and the slot now holds the tracker of the new gesture
C6_Witness ==
    /\ last.op \in {"canvas_mouse_down", "shape_mouse_down"}
    /\ last.before # None
    /\ CANVAS_TRACKER # None
    /\ CANVAS_TRACKER.gesture = last.before.gesture + 1

\* C7 (Spec): a pointer-move or pointer-up is given to the tracker that is in
\* the slot when the event is handled: to no other tracker, and to that one
\* whenever the slot holds one.
C7_EventGoesToInstalledTracker ==
    last.op \in {"mouse_move", "mouse_up"} =>
        /\ last.tracker = last.before
        /\ (last.before # None) = (last.called # <<>>)

\* a pointer-move reached the tracker of the second gesture
C7_Witness ==
    /\ last.op = "mouse_move"
    /\ last.tracker # None
    /\ last.tracker.gesture = 2
    /\ last.called = <<"track_mouse_move">>

\* C8 (Spec): with no tracker in the slot a pointer-move or pointer-up leaves
\* the document, the color cycler and the empty slot unchanged.
C8_NoTrackerNoEffect ==
    [][ ((PointerMove \/ PointerUp) /\ CANVAS_TRACKER = None) =>
          UNCHANGED <<DOC, APP_STATE, CANVAS_TRACKER>> ]_vars

\* a pointer-up was handled with the slot empty, after a gesture that had
\* changed the document
C8_Witness ==
    /\ last.op = "mouse_up"
    /\ last.before = None
    /\ gestures >= 1
    /\ DOC # new_demo

C10_EmptyRectLeavesNoShape ==
    (/\ PostedByNewRectTracker
     /\ \/ last.point.x = last.tracker.mouse_down.x
        \/ last.point.y = last.tracker.mouse_down.y) =>
        /\ last.tracker.shape_id \notin DOMAIN DOC.shapes
        /\ ~contains(DOC.sequence, last.tracker.shape_id)

\* a pointer-up at the anchor removed the candidate an earlier move had put in
C10_Witness ==
    /\ last.op = "mouse_up"
    /\ last.tracker.kind = "NewRectTracker"
    /\ last.point = last.tracker.mouse_down
    /\ last.had_shape
    /\ last.tracker.shape_id \notin DOMAIN DOC.shapes

\* the last document call was upsert_shape_with_id
LastWasUpsert == last.op = "upsert_shape_with_id"

\* seq without every occurrence of shape_id, the rest in order
Without(seq, shape_id) == SelectSeq(seq, LAMBDA x : x # shape_id)

\* every shape other than shape_id is the same in before and after
OthersUnchanged(before, after, shape_id) ==
    \A k \in ((DOMAIN before.shapes) \cup (DOMAIN after.shapes)) \ {shape_id} :
        /\ k \in DOMAIN before.shapes
        /\ k \in DOMAIN after.shapes
        /\ after.shapes[k] = before.shapes[k]

\* geometry moved by (dx, dy), written out per variant
Translated(geometry, dx, dy) ==
    IF geometry.kind = "Rectangle"
    THEN rectangle(geometry.top_left.x + dx, geometry.top_left.y + dy,
                   geometry.size.x, geometry.size.y)
    ELSE circle(geometry.center.x + dx, geometry.center.y + dy,
                geometry.radius)

\* C11: after a pointer-move or pointer-up at point p is given to a
\* ShapeDragTracker, the geometry of its shape (if the shape is in the
\* document) is the geometry captured when the tracker was made, moved by
\* p minus the pointer-down point: it depends on p only, whatever moves came
\* before, and the style of the shape is not touched.
C11_DragIsInitialGeometryPlusOffset ==
    ( /\ last.op \in {"mouse_move", "mouse_up"}
      /\ last.tracker.kind = "ShapeDragTracker"
      /\ last.tracker.shape_id \in DOMAIN DOC.shapes )
    => DOC.shapes[last.tracker.shape_id].geometry =
          Translated(last.tracker.initial_geometry,
                     last.point.x - last.tracker.mouse_down.x,
                     last.point.y - last.tracker.mouse_down.y)

\* a drag of the demo rectangle 4 from (10,10) has ended at (60,40): the
\* rectangle is 50 right and 30 down of where the demo document has it
C11_Witness ==
    /\ last.op = "mouse_up"
    /\ last.tracker.kind = "ShapeDragTracker"
    /\ last.tracker.shape_id = 4
    /\ last.tracker.initial_geometry = rectangle(250, 80, 200, 20)
    /\ last.tracker.mouse_down = XYPoint(10, 10)
    /\ last.point = XYPoint(60, 40)
    /\ 4 \in DOMAIN DOC.shapes
    /\ DOC.shapes[4].geometry = rectangle(300, 110, 200, 20)

\* C12: right after upsert_shape_with_id(id, s), get_shape_by_id(id) returns
\* Some(s).
C12_UpsertThenGetReturnsShape ==
    LastWasUpsert =>
        get_shape_by_id(DOC, last.shape_id) =
            [some |-> TRUE, shape |-> last.shape]

\* the demo shape 1 (a blue circle) has been replaced by an upsert
C12_Witness ==
    /\ LastWasUpsert
    /\ calls = 1
    /\ last.shape_id = 1
    /\ Len(DOC.sequence) = 6
    /\ DOC.shapes[1] = last.shape
    /\ DOC.shapes[1] # new_demo.shapes[1]

\* C13: an upsert_shape_with_id(id, s) that directly follows the same call
\* leaves the document (shapes, sequence, next_shape_id) as the first call
\* left it, and id is in the sequence once.
C13_UpsertIsIdempotent ==
    [][ \A shape_id \in InputIds : \A shape \in InputShapes :
          ( /\ call_upsert_shape_with_id(shape_id, shape)
            /\ LastWasUpsert
            /\ last.shape_id = shape_id
            /\ last.shape = shape
            /\ ~panicked' )
          => /\ DOC' = DOC
             /\ Cardinality({ i \in DOMAIN DOC'.sequence :
                                DOC'.sequence[i] = shape_id }) = 1 ]_vars

\* the same upsert has been made twice in a row on a document with other
\* shapes
C13_Witness ==
    /\ LastWasUpsert
    /\ last.repeated
    /\ ~panicked
    /\ Len(DOC.sequence) >= 2
    /\ DOC.shapes[last.shape_id] = last.shape

\* C14: upsert_shape_with_id(id, s) appends id to the sequence when id is not
\* in the document and leaves the sequence alone when it is; either way
\* shapes[id] becomes s and every other shape stays as it was.
C14_UpsertAppendsOrReplaces ==
    [][ \A shape_id \in InputIds : \A shape \in InputShapes :
          call_upsert_shape_with_id(shape_id, shape)
          => /\ IF shape_id \in DOMAIN DOC.shapes
                THEN DOC'.sequence = DOC.sequence
                ELSE DOC'.sequence = Append(DOC.sequence, shape_id)
             /\ DOMAIN DOC'.shapes = (DOMAIN DOC.shapes) \cup {shape_id}
             /\ DOC'.shapes[shape_id] = shape
             /\ \A k \in (DOMAIN DOC.shapes) \ {shape_id} :
                    DOC'.shapes[k] = DOC.shapes[k] ]_vars

\* a new id has been put on top of the six demo shapes, which are as they were
C14_Witness ==
    /\ LastWasUpsert
    /\ calls = 1
    /\ DOC.sequence = Append(new_demo.sequence, last.shape_id)
    /\ \A k \in DOMAIN new_demo.shapes : DOC.shapes[k] = new_demo.shapes[k]

\* C15: delete_shape_with_id of an id that is not in the document leaves the
\* whole document as it was and does not fail.
C15_DeleteAbsentIsNoOp ==
    [][ \A shape_id \in InputIds :
          ( /\ call_delete_shape_with_id(shape_id)
            /\ shape_id \notin DOMAIN DOC.shapes )
          => /\ DOC' = DOC
             /\ ~panicked' ]_vars

\* an id that the demo document never had has been deleted from it
C15_Witness ==
    /\ last.op = "delete_shape_with_id"
    /\ calls = 1
    /\ last.shape_id \notin DOMAIN new_demo.shapes
    /\ DOC = new_demo
    /\ ~panicked

\* C16: delete_shape_with_id of an id that is in the document removes it
\* from shapes and from the sequence, so that get_shape_by_id returns None;
\* the other shapes, their order and next_shape_id stay as they were.
C16_DeletePresentRemovesOnlyThatShape ==
    [][ \A shape_id \in InputIds :
          ( /\ call_delete_shape_with_id(shape_id)
            /\ shape_id \in DOMAIN DOC.shapes )
          => /\ get_shape_by_id(DOC', shape_id) = [some |-> FALSE]
             /\ DOC'.sequence = Without(DOC.sequence, shape_id)
             /\ DOMAIN DOC'.shapes = (DOMAIN DOC.shapes) \ {shape_id}
             /\ OthersUnchanged(DOC, DOC', shape_id)
             /\ DOC'.next_shape_id = DOC.next_shape_id ]_vars

\* the bottom shape of the demo document has been deleted
C16_Witness ==
    /\ last.op = "delete_shape_with_id"
    /\ calls = 1
    /\ last.shape_id = 1
    /\ DOC.sequence = <<2, 3, 4, 5, 6>>
    /\ DOMAIN DOC.shapes = 2..6
    /\ DOC.next_shape_id = 7

\* C17: update_geometry_for_shape_id(id, g) gives the shape id the geometry
\* g and keeps its style when id is in the document, and adds nothing when
\* it is not; the sequence, next_shape_id and every other shape stay as they
\* were.
C17_UpdateGeometryChangesOnlyGeometry ==
    [][ \A shape_id \in InputIds : \A new_geometry \in InputGeometries :
          call_update_geometry_for_shape_id(shape_id, new_geometry)
          => /\ IF shape_id \in DOMAIN DOC.shapes
                THEN /\ shape_id \in DOMAIN DOC'.shapes
                     /\ DOC'.shapes[shape_id] =
                            Shape(new_geometry, DOC.shapes[shape_id].style)
                ELSE DOC' = DOC
             /\ DOC'.sequence = DOC.sequence
             /\ DOC'.next_shape_id = DOC.next_shape_id
             /\ OthersUnchanged(DOC, DOC', shape_id) ]_vars

\* the demo shape 1 has a new geometry and its blue fill
C17_Witness ==
    /\ last.op = "update_geometry_for_shape_id"
    /\ calls = 1
    /\ last.shape_id = 1
    /\ 1 \in DOMAIN DOC.shapes
    /\ DOC.shapes[1].geometry = last.new_geometry
    /\ DOC.shapes[1].geometry # new_demo.shapes[1].geometry
    /\ DOC.shapes[1].style = new_demo.shapes[1].style

\* C18: move_shape_with_id_to_top of an id that is in the sequence makes it
\* the last element, keeps the order of the other ids, and leaves shapes and
\* next_shape_id as they were.
C18_MoveToTopMakesIdLast ==
    [][ \A shape_id \in InputIds :
          ( /\ call_move_shape_with_id_to_top(shape_id)
            /\ shape_id \in SeqIds(DOC.sequence) )
          => /\ DOC'.sequence =
                    Append(Without(DOC.sequence, shape_id), shape_id)
             /\ SeqIds(DOC'.sequence) = SeqIds(DOC.sequence)
             /\ DOC'.shapes = DOC.shapes
             /\ DOC'.next_shape_id = DOC.next_shape_id ]_vars

\* the bottom shape of the demo document has been moved to the top
C18_Witness ==
    /\ last.op = "move_shape_with_id_to_top"
    /\ calls = 1
    /\ last.shape_id = 1
    /\ DOC.sequence = <<2, 3, 4, 5, 6, 1>>
    /\ DOC.shapes = new_demo.shapes

\* C19: move_shape_with_id_to_top leaves the document as it was when the id
\* is already the last element, when the id is not in the sequence, and
\* when the document is empty.
C19_MoveToTopNoOpCases ==
    [][ \A shape_id \in InputIds :
          ( /\ call_move_shape_with_id_to_top(shape_id)
            /\ \/ DOC.sequence = << >>
               \/ shape_id \notin SeqIds(DOC.sequence)
               \/ DOC.sequence[Len(DOC.sequence)] = shape_id )
          => DOC' = DOC ]_vars

\* id 0 was put on top of the demo shapes by the first call, and the second
\* call has moved it to the top, where it already was
C19_Witness ==
    /\ last.op = "move_shape_with_id_to_top"
    /\ calls = 2
    /\ last.shape_id = 0
    /\ DOC.sequence = <<1, 2, 3, 4, 5, 6, 0>>

\* C20: shape_id_shapes_iter yields, in the order of the sequence, one pair
\* (id, shapes[id]) for each id of the sequence that has a shape, and the
\* rendered shapes are these pairs in this order.
C20_IterFollowsSequence ==
    LET it == shape_id_shapes_iter(DOC)
        ids == SelectSeq(DOC.sequence, LAMBDA x : x \in DOMAIN DOC.shapes)
    IN  /\ Len(it) = Len(ids)
        /\ \A i \in 1..Len(ids) : it[i] = <<ids[i], DOC.shapes[ids[i]]>>
        /\ Len(rendered.shapes) = Len(ids)
        /\ \A i \in 1..Len(ids) :
              /\ rendered.shapes[i].shape_id = ids[i]
              /\ rendered.shapes[i].initial_geometry =
                     DOC.shapes[ids[i]].geometry

\* a new rectangle is rendered on top of the demo shapes, of which the
\* circle 1 has been dragged away
C20_Witness ==
    /\ Len(DOC.sequence) = 7
    /\ Len(rendered.shapes) = 7
    /\ rendered.shapes[7].shape_id = DOC.sequence[7]
    /\ rendered.shapes[7].shape_id \notin DOMAIN new_demo.shapes
    /\ rendered.shapes[1].shape_id = 1
    /\ rendered.shapes[1].initial_geometry # new_demo.shapes[1].geometry

\* the last cycler call was get_fill_color_and_advance_skipping_white
LastSkippedWhite == last.op = "get_fill_color_and_advance_skipping_white"

\* the last cycler call was get_fill_color_and_advance
LastAdvanced == last.op = "get_fill_color_and_advance"

NonWhite == Color \ {"White"}

\* how many of seq[from..to] are c
Count(seq, from, to, c) == Cardinality({ i \in from..to : seq[i] = c })

\* the order the spec gives for the cycle, from the default color
SpecCycle == <<"Red", "Orange", "Yellow", "Green", "Blue", "Indigo",
               "Violet", "Black", "White">>

\* C21: get_fill_color_and_advance_skipping_white never returns White, from
\* every cycler state (the current color White included) that calls of the
\* two methods in any order lead to.
C21_SkippingWhiteNeverReturnsWhite ==
    LastSkippedWhite => last.color \in NonWhite

\* the current color was White when the call was made: it has returned Red
\* and left Orange as the current color
C21_Witness ==
    /\ LastSkippedWhite
    /\ last.before = "White"
    /\ last.color = "Red"
    /\ APP_STATE.fill_color = "Orange"

\* C22, the claim as stated: 9 calls of
\* get_fill_color_and_advance_skipping_white in a row never return White and
\* return each of the other 8 colors exactly once.
C22_NineCallsEachColorOnce ==
    (LastSkippedWhite /\ Len(last.run) >= 9) =>
        LET n == Len(last.run)
        IN  /\ Count(last.run, n - 8, n, "White") = 0
            /\ \A c \in NonWhite : Count(last.run, n - 8, n, c) = 1

\* C22, amended: 9 calls of get_fill_color_and_advance_skipping_white in a
\* row never return White; the first 8 of them return each of the other 8
\* colors exactly once, and the 9th returns the color the 1st returned.
C22_EightCallsEachColorOnce ==
    (LastSkippedWhite /\ Len(last.run) >= 9) =>
        LET n == Len(last.run)
        IN  /\ Count(last.run, n - 8, n, "White") = 0
            /\ \A c \in NonWhite : Count(last.run, n - 8, n - 1, c) = 1
            /\ last.run[n] = last.run[n - 8]

\* 9 calls in a row that began at Indigo and passed over White
C22_Witness ==
    /\ LastSkippedWhite
    /\ Len(last.run) = 9
    /\ last.run[1] = "Indigo"
    /\ last.run[3] = "Black"
    /\ last.run[4] = "Red"
    /\ last.run[9] = "Indigo"

C24_MoveNeverEndsGesture ==
    [][ /\ \A evt \in MouseEvents :
              (mouse_move_handler(evt) /\ CANVAS_TRACKER # None) =>
                 /\ \A o \in track_mouse_move(CANVAS_TRACKER, DOC, evt) :
                        o.next = "Continue"
                 /\ CANVAS_TRACKER' = CANVAS_TRACKER
        /\ (CANVAS_TRACKER # None /\ CANVAS_TRACKER' = None) => PointerUp ]_vars

\* a drag has handled a pointer-move away from its anchor and is still the
\* installed tracker
C24_Witness ==
    /\ last.op = "mouse_move"
    /\ last.tracker.kind = "ShapeDragTracker"
    /\ last.point # last.tracker.mouse_down
    /\ CANVAS_TRACKER = last.tracker

\* the document a NewRectTracker's move or up at point leaves, computed from
\* the document at the pointer-down, the tracker's fields and the point
NewRectResult(start, tracker, point) ==
    LET id == tracker.shape_id
        w == Abs(point.x - tracker.mouse_down.x)
        h == Abs(point.y - tracker.mouse_down.y)
        rect == rectangle(Min(point.x, tracker.mouse_down.x),
                          Min(point.y, tracker.mouse_down.y), w, h)
    IN  IF w > 0 /\ h > 0
        THEN [shapes |-> [k \in (DOMAIN start.shapes) \cup {id} |->
                            IF k = id THEN Shape(rect, tracker.style)
                            ELSE start.shapes[k]],
              sequence |-> IF id \in SeqIds(start.sequence)
                           THEN start.sequence
                           ELSE Append(start.sequence, id),
              next_shape_id |-> start.next_shape_id]
        ELSE [shapes |-> [k \in (DOMAIN start.shapes) \ {id} |->
                            start.shapes[k]],
              sequence |-> Without(start.sequence, id),
              next_shape_id |-> start.next_shape_id]

\* C25: the document after a NewRectTracker's track_mouse_up at point p (and
\* after each of its moves) is a function of the document the pointer-down
\* left, the tracker's anchor, id and style, and p: whatever moves the
\* gesture had before, with the candidate posted, deleted or posted again,
\* shapes, sequence and next_shape_id are the same.
C25_NewRectResultIgnoresEarlierMoves ==
    PostedByNewRectTracker =>
        DOC = NewRectResult(last.start, last.tracker, last.point)

\* the pointer-up came after a move that had posted the candidate, and has
\* posted a rectangle again
C25_Witness ==
    /\ last.op = "mouse_up"
    /\ last.tracker.kind = "NewRectTracker"
    /\ last.tracker.shape_id \notin DOMAIN last.start.shapes
    /\ last.had_shape
    /\ last.tracker.shape_id \in DOMAIN DOC.shapes

\* C26: every Rectangle in the document has a width and a height above
\* zero, in every state the pointer events lead to from the demo document.
C26_RectanglesHavePositiveSize ==
    \A k \in DOMAIN DOC.shapes :
        DOC.shapes[k].geometry.kind = "Rectangle" =>
            /\ DOC.shapes[k].geometry.size.x > 0
            /\ DOC.shapes[k].geometry.size.y > 0

\* a drawn rectangle is in the document, and the demo rectangle 4 has been
\* dragged
C26_Witness ==
    /\ \E k \in (DOMAIN DOC.shapes) \ (DOMAIN new_demo.shapes) :
          DOC.shapes[k].geometry.kind = "Rectangle"
    /\ 4 \in DOMAIN DOC.shapes
    /\ DOC.shapes[4].geometry # new_demo.shapes[4].geometry

\* C27: the gesture machine is reusable.  A pointer-up handled while a
\* tracker is installed empties the slot; with pointer-ups delivered, a slot
\* that holds a tracker is empty again later; and with the slot empty a
\* pointer-down is handled and installs the tracker of a new gesture, also
\* after earlier gestures.
C27_GestureMachineIsReusable ==
    /\ (CANVAS_TRACKER # None) ~> (CANVAS_TRACKER = None)
    /\ [][ /\ (PointerUp /\ CANVAS_TRACKER # None) => CANVAS_TRACKER' = None
           /\ (PointerDown /\ CANVAS_TRACKER = None) =>
                 /\ CANVAS_TRACKER' # None
                 /\ CANVAS_TRACKER'.gesture = gestures + 1 ]_vars
    /\ []( (CANVAS_TRACKER = None /\ gestures < MaxGestures) =>
              ENABLED PointerDown )

\* the first gesture has had its pointer-up, and a pointer-down on the empty
\* slot has installed the tracker of the second gesture
C27_Witness ==
    /\ last.op \in {"canvas_mouse_down", "shape_mouse_down"}
    /\ last.before = None
    /\ CANVAS_TRACKER # None
    /\ CANVAS_TRACKER.gesture = 2

\* C29: a pointer-down on a rendered shape makes a ShapeDragTracker whose
\* initial_geometry is the geometry the shape has in the document at that
\* moment, and a first pointer-move at the anchor leaves the document as
\* it is.
C29_DragStartsFromCurrentGeometry ==
    [][ /\ \A i \in DOMAIN rendered.shapes : \A evt \in MouseEvents :
              shape_mouse_down(i, evt) =>
                 LET id == rendered.shapes[i].shape_id
                 IN  /\ id \in DOMAIN DOC.shapes
                     /\ CANVAS_TRACKER'.kind = "ShapeDragTracker"
                     /\ CANVAS_TRACKER'.shape_id = id
                     /\ CANVAS_TRACKER'.initial_geometry =
                            DOC.shapes[id].geometry
        /\ \A evt \in MouseEvents :
              ( /\ mouse_move_handler(evt)
                /\ last.op = "shape_mouse_down"
                /\ evt = CANVAS_TRACKER.mouse_down )
              => DOC' = DOC ]_vars

\* the second gesture drags a demo shape that the first gesture had moved:
\* its tracker holds the moved geometry, and a move at the anchor has left
\* the shape there
C29_Witness ==
    /\ last.op = "mouse_move"
    /\ last.tracker.kind = "ShapeDragTracker"
    /\ last.tracker.gesture = 2
    /\ last.tracker.shape_id \in DOMAIN new_demo.shapes
    /\ last.tracker.initial_geometry #
          new_demo.shapes[last.tracker.shape_id].geometry
    /\ last.point = last.tracker.mouse_down
    /\ DOC.shapes[last.tracker.shape_id].geometry =
          last.tracker.initial_geometry

\* the positions of pairs whose id is also at an earlier position
RepeatPositions(pairs) ==
    { j \in 1..Len(pairs) : \E i \in 1..(j - 1) : pairs[i][1] = pairs[j][1] }

\* the least element of a non-empty set of numbers
Least(S) == CHOOSE x \in S : \A y \in S : x <= y

\* C28, the claim as stated: new_from_pairs returns
\* Err(DuplicateShapeId(id)) when an id is twice in the list, id being the
\* first id met that an earlier pair had; otherwise it returns a document
\* whose sequence is the ids in list order, whose shapes map each id to its
\* shape, and whose next_shape_id is above every id of the list.
C28_NewFromPairsResult ==
    (last.op = "new_from_pairs") =>
        LET pairs == last.pairs
            r == last.result
        IN  IF RepeatPositions(pairs) # {}
            THEN /\ r.kind = "Err"
                 /\ r.error = [kind |-> "DuplicateShapeId",
                               id |-> pairs[Least(RepeatPositions(pairs))][1]]
            ELSE /\ r.kind = "Ok"
                 /\ r.doc.sequence = [i \in 1..Len(pairs) |-> pairs[i][1]]
                 /\ DOMAIN r.doc.shapes = { pairs[i][1] : i \in 1..Len(pairs) }
                 /\ \A i \in 1..Len(pairs) :
                       /\ r.doc.shapes[pairs[i][1]] = pairs[i][2]
                       /\ r.doc.next_shape_id > pairs[i][1]

\* C30, the claim as stated: upsert_shape_with_id(id, shape) leaves
\* next_shape_id above id for every id a usize can hold, the largest
\* included, and generate_shape_id returns the id one below the new
\* next_shape_id at every value of next_shape_id, with no overflow and no
\* wrap-around.
C30_NoOverflowAtAnyId ==
    [][ /\ \A shape_id \in InputIds : \A shape \in InputShapes :
              call_upsert_shape_with_id(shape_id, shape) =>
                 /\ ~panicked'
                 /\ DOC'.next_shape_id > shape_id
        /\ call_generate_shape_id =>
              /\ ~panicked'
              /\ DOC'.next_shape_id - 1 = last'.ret ]_vars

\* the color after c in the order the spec gives
SpecCycleNext(c) ==
    LET i == CHOOSE k \in 1..9 : SpecCycle[k] = c
    IN  SpecCycle[(i % 9) + 1]

C32_ConstructorsNumberFromOne ==
    /\ (last.op = "init") =>
          /\ DOMAIN DOC.shapes = {}
          /\ DOC.sequence = << >>
          /\ DOC.next_shape_id = 1
    /\ (last.op = "new_from_shapes") =>
          LET n == Len(last.shapes)
          IN  /\ ~panicked
              /\ DOC.sequence = [i \in 1..n |-> i]
              /\ DOMAIN DOC.shapes = 1..n
              /\ \A i \in 1..n : DOC.shapes[i] = last.shapes[i]
              /\ DOC.next_shape_id = n + 1
    /\ (last.op = "new_demo") =>
          /\ DOC.sequence = <<1, 2, 3, 4, 5, 6>>
          /\ DOMAIN DOC.shapes = 1..6
          /\ \A i \in 1..6 : DOC.shapes[i] = demo_shapes[i]
          /\ DOC.next_shape_id = 7
          /\ SeqIds(DOC.sequence) = DOMAIN DOC.shapes

\* new_from_shapes has made a document of three shapes
C32_Witness ==
    /\ last.op = "new_from_shapes"
    /\ Len(last.shapes) = 3
    /\ DOC.sequence = <<1, 2, 3>>
    /\ DOC.next_shape_id = 4

\* C36: no id is twice in the sequence, so the sequence is as long as shapes
\* has entries, after any calls of the five mutators on a document made by
\* new_empty, new_from_shapes or a successful new_from_pairs.
C36_SequenceHasNoIdTwice ==
    /\ \A i, j \in 1..Len(DOC.sequence) :
          (DOC.sequence[i] = DOC.sequence[j]) => (i = j)
    /\ Len(DOC.sequence) = Cardinality(DOMAIN DOC.shapes)

\* on the document new_from_pairs made, an id of it has been upserted again
\* and then moved to the top
C36_Witness ==
    /\ last.op = "move_shape_with_id_to_top"
    /\ calls = 2
    /\ last.shape_id = 0
    /\ 0 \in used
    /\ DOC.sequence = <<3, 0>>
    /\ DOC.shapes[0] \in InputShapes

\* C33: a NewRectTracker touches its own id only.  After each of its moves
\* and its pointer-up, every shape that was in the document when the
\* pointer-down had been handled is in it with the same geometry and style,
\* these shapes are in the sequence in the same order, and the tracker's id
\* is none of theirs.
C33_NewRectLeavesOtherShapesAlone ==
    PostedByNewRectTracker =>
        LET id == last.tracker.shape_id
        IN  /\ id \notin DOMAIN last.start.shapes
            /\ id \notin SeqIds(last.start.sequence)
            /\ \A k \in DOMAIN last.start.shapes :
                  /\ k \in DOMAIN DOC.shapes
                  /\ DOC.shapes[k] = last.start.shapes[k]
            /\ Without(DOC.sequence, id) = last.start.sequence

\* the rectangle of the second gesture is in the document, beside a shape
\* that the first gesture had changed or added
C33_Witness ==
    /\ last.op = "mouse_move"
    /\ last.tracker.kind = "NewRectTracker"
    /\ last.tracker.gesture = 2
    /\ last.tracker.shape_id \in DOMAIN DOC.shapes
    /\ last.start.shapes # new_demo.shapes

\* the variant and the size or radius of a geometry are those of another
SameExtent(g, h) ==
    /\ g.kind = h.kind
    /\ IF g.kind = "Rectangle" THEN g.size = h.size ELSE g.radius = h.radius

\* C34: a pointer-move or pointer-up given to a ShapeDragTracker leaves the
\* ids, the sequence, next_shape_id, the color cycler and every other shape
\* as they were, and the style, the variant and the size or radius of its
\* shape too; with an id that is not in the document the tracker changes
\* nothing and inserts nothing.
C34_DragChangesPositionOnly ==
    [][ \A evt \in MouseEvents :
          ( /\ mouse_move_handler(evt) \/ mouse_up_handler(evt)
            /\ CANVAS_TRACKER.kind = "ShapeDragTracker" )
          => LET id == CANVAS_TRACKER.shape_id
                 gone == [CANVAS_TRACKER EXCEPT !.shape_id = UsizeMax]
             IN  /\ DOC'.sequence = DOC.sequence
                 /\ DOC'.next_shape_id = DOC.next_shape_id
                 /\ APP_STATE' = APP_STATE
                 /\ DOMAIN DOC'.shapes = DOMAIN DOC.shapes
                 /\ OthersUnchanged(DOC, DOC', id)
                 /\ id \in DOMAIN DOC.shapes
                 /\ DOC'.shapes[id].style = DOC.shapes[id].style
                 /\ SameExtent(DOC'.shapes[id].geometry,
                               DOC.shapes[id].geometry)
                 /\ UsizeMax \notin DOMAIN DOC.shapes
                 /\ \A o \in track_mouse_move(gone, DOC, evt)
                             \cup track_mouse_up(gone, DOC, evt) :
                        o.doc = DOC ]_vars

\* the demo circle 1 has been dragged to another place and has its radius
\* and its fill
C34_Witness ==
    /\ last.op = "mouse_up"
    /\ last.tracker.kind = "ShapeDragTracker"
    /\ last.tracker.shape_id = 1
    /\ DOC.shapes[1].geometry.center # new_demo.shapes[1].geometry.center
    /\ DOC.shapes[1].geometry.radius = new_demo.shapes[1].geometry.radius
    /\ DOC.shapes[1].style = new_demo.shapes[1].style
    /\ DOC.sequence = new_demo.sequence

\* C35: a pointer-down on the background raises next_shape_id by one and
\* moves the color cycler one or two steps on, and leaves shapes and the
\* sequence as they were; a pointer-down on a shape leaves the document and
\* the color cycler as they were.
C35_PointerDownEffects ==
    [][ /\ \A evt \in MouseEvents :
              canvas_mouse_down(evt) =>
                 /\ DOC'.next_shape_id = DOC.next_shape_id + 1
                 /\ DOC'.shapes = DOC.shapes
                 /\ DOC'.sequence = DOC.sequence
                 /\ APP_STATE'.fill_color \in
                       { SpecCycleNext(APP_STATE.fill_color),
                         SpecCycleNext(SpecCycleNext(APP_STATE.fill_color)) }
                 \* the draw of the handler, from each color the cycler
                 \* can be at: two steps from White, one from the others
                 /\ \A c \in Color :
                       get_fill_color_and_advance_skipping_white(
                           [fill_color |-> c]).state.fill_color
                       = IF c = "White"
                         THEN SpecCycleNext(SpecCycleNext(c))
                         ELSE SpecCycleNext(c)
        /\ \A evt \in MouseEvents : \A i \in DOMAIN rendered.shapes :
              shape_mouse_down(i, evt) =>
                 /\ DOC' = DOC
                 /\ APP_STATE' = APP_STATE ]_vars

\* a click on the background, a pointer-down and a pointer-up at one point,
\* has left no shape and has used up the id 7 and the color Red
C35_Witness ==
    /\ last.op = "mouse_up"
    /\ last.tracker.kind = "NewRectTracker"
    /\ last.tracker.gesture = 1
    /\ last.point = last.tracker.mouse_down
    /\ ~last.had_shape
    /\ DOC.shapes = new_demo.shapes
    /\ DOC.sequence = new_demo.sequence
    /\ DOC.next_shape_id = new_demo.next_shape_id + 1
    /\ APP_STATE.fill_color = "Orange"

\* C37: while the rectangle of a NewRectTracker is in the document, during
\* the gesture and after its pointer-up, the tracker's id is the last
\* element of the sequence, also when the rectangle had been deleted before.
C37_NewRectIsTopmost ==
    /\ ( /\ CANVAS_TRACKER.kind = "NewRectTracker"
         /\ CANVAS_TRACKER.shape_id \in DOMAIN DOC.shapes )
       => DOC.sequence[Len(DOC.sequence)] = CANVAS_TRACKER.shape_id
    /\ ( /\ PostedByNewRectTracker
         /\ last.tracker.shape_id \in DOMAIN DOC.shapes )
       => DOC.sequence[Len(DOC.sequence)] = last.tracker.shape_id

\* the second gesture has posted its rectangle, which was not in the
\* document before this move, on top of the rectangle of the first gesture
C37_Witness ==
    /\ last.op = "mouse_move"
    /\ last.tracker.kind = "NewRectTracker"
    /\ ~last.had_shape
    /\ Len(DOC.sequence) = Len(new_demo.sequence) + 2
    /\ DOC.sequence[Len(DOC.sequence)] = last.tracker.shape_id

\* C38: a load_document that fails leaves the_only_document and
\* current_file_path as they were, a save_document_as that fails leaves
\* current_file_path as it was, and each of them, when it succeeds, sets
\* current_file_path to Some(path).
C38_FailedLoadAndSaveAsKeepState ==
    [][ \A path \in Paths :
          /\ call_load_document(path) =>
                /\ last'.result = "Err" =>
                      application_state' = application_state
                /\ last'.result = "Ok" =>
                      application_state'.current_file_path = Some(path)
          /\ call_save_document_as(path) =>
                /\ last'.result = "Err" =>
                      application_state'.current_file_path
                      = application_state.current_file_path
                /\ last'.result = "Ok" =>
                      application_state'.current_file_path = Some(path) ]_vars

\* the document read from image.json was saved as copy.json, and a
\* load_document of notes.txt has failed
C38_Witness ==
    /\ last.op = "load_document"
    /\ last.path = "notes.txt"
    /\ last.result = "Err"
    /\ application_state.current_file_path = Some("copy.json")
    /\ application_state.the_only_document = [html |-> "image"]
    /\ files["copy.json"] = to_writer_pretty([html |-> "image"])

\* C39: new_document leaves current_file_path None; with current_file_path
\* None, save_document returns an error and writes no file, and the path
\* becomes Some only by a save_document_as or a load_document that succeeds;
\* with current_file_path Some(p), save_document writes to p and to no other
\* file, and when it succeeds p holds the document.
C39_SaveDocumentNeedsPath ==
    [][ /\ call_new_document =>
              application_state'.current_file_path = None
        /\ ( /\ call_save_document
             /\ application_state.current_file_path = None )
           => /\ last'.result = "Err"
              /\ files' = files
              /\ application_state' = application_state
        /\ ( /\ application_state.current_file_path = None
             /\ application_state'.current_file_path # None )
           => /\ last'.op \in {"save_document_as", "load_document"}
              /\ last'.result = "Ok"
        /\ \A p \in Paths :
              ( /\ call_save_document
                /\ application_state.current_file_path = Some(p) )
              => /\ \A q \in Paths \ {p} : files'[q] = files[q]
                 /\ last'.result = "Ok" =>
                       files'[p] = to_writer_pretty(
                                       application_state.the_only_document)
      ]_vars

\* after new_document a save_document has failed, and the files are those
\* of the start
C39_Witness ==
    /\ last.op = "save_document"
    /\ last.result = "Err"
    /\ application_state.current_file_path = None
    /\ application_state.the_only_document = Document_new
    /\ files = InitFiles

====
